---- MODULE Spec2Model ----
(***************************************************************************)
(* State-machine model of src/app.py, a Streamlit page: every user         *)
(* interaction re-runs the script from the top.  A run loads the four      *)
(* artifacts through the st.cache_resource-decorated load_models, stops on *)
(* a load failure, otherwise renders the input form and, when the button   *)
(* was clicked, evaluates the risk and renders the result.                 *)
(*                                                                         *)
(* Numbers: risk scores and model weights are in tenths (-0.5 is -5),      *)
(* premium multipliers in tenths (0.8 is 8), premiums in cents.            *)
(***************************************************************************)
EXTENDS Integers, Sequences, FiniteSets, TLC

VARIABLES
    trained,        \* contents the four artifact files have when present
    disk,           \* set of artifact files currently present on disk
    cache,          \* st.cache_resource store: <<>> or <<artifacts>>
    pc,             \* position of the current script run
    clicked,        \* the run was triggered by the Analyze button
    models_loaded,  \* app.py:28/30
    artifacts,      \* model, scaler, metadata, metrics of this run: <<>> or <<r>>
    readDisk,       \* this run executed the body of load_models
    widgets,        \* session widget state, keyed by feature name
    inputs,         \* app.py:124, a dict kept as a sequence of <<key, value>>
    features_array, \* app.py:152, <<>> until the evaluator builds it
    result,         \* <<>> or <<[score, tier, premium, shown]>>
    rendered,       \* elements the current run has put on the page
    loadFailed,     \* history: some run of this session failed to load
    prev            \* history: <<>> or <<[inputs, result]>> of an earlier evaluation

vars == <<trained, disk, cache, pc, clicked, models_loaded, artifacts, readDisk,
          widgets, inputs, features_array, result, rendered, loadFailed, prev>>

(***************************************************************************)
(* Bounds of the model.                                                    *)
(***************************************************************************)
MaxCols == 2        \* longest feature_cols list
MaxBias == 6        \* model bias ranges over -MaxBias..MaxBias (tenths)

(***************************************************************************)
(* Static tables and constants of app.py.                                  *)
(***************************************************************************)
Files == <<"deepsurv_model.h5", "scaler.pkl", "metadata.pkl", "metrics.pkl">>

FileSet == {Files[i] : i \in 1..Len(Files)}

\* Feature names the metadata may list; "educ" has no entry in feature_ranges.
FeatureNames == {"fin", "age", "educ"}

feature_ranges(feature) ==
    CASE feature = "fin"  -> <<0, 1>>
      [] feature = "age"  -> <<18, 100>>
      [] feature = "race" -> <<0, 1>>
      [] feature = "wexp" -> <<0, 1>>
      [] feature = "mar"  -> <<0, 1>>
      [] feature = "paro" -> <<0, 1>>
      [] feature = "prio" -> <<0, 20>>
      [] OTHER            -> <<0, 100>>

min_val(feature) == feature_ranges(feature)[1]

max_val(feature) == feature_ranges(feature)[2]

LowCut == -5

HighCut == 5

base_premium == 1000

(***************************************************************************)
(* dict operations on a sequence of <<key, value>> pairs (insertion order). *)
(***************************************************************************)
Keys(d) == {d[i][1] : i \in 1..Len(d)}

DictIndex(d, k) == CHOOSE i \in 1..Len(d) : d[i][1] = k

DictGet(d, k, default) == IF k \in Keys(d) THEN d[DictIndex(d, k)][2] ELSE default

DictSet(d, k, v) ==
    IF k \in Keys(d)
    THEN [d EXCEPT ![DictIndex(d, k)] = <<k, v>>]
    ELSE Append(d, <<k, v>>)

(***************************************************************************)
(* Artifact Loader (app.py:15-30).                                         *)
(***************************************************************************)
\* Loads what it can: a missing metrics file is not treated as a failure.
load_models_partial(dsk, tr) ==
    IF \A i \in 1..3 : Files[i] \in dsk
    THEN <<[model |-> tr.model, scaler |-> tr.scaler,
            metadata |-> tr.metadata, metrics |-> tr.metrics]>>
    ELSE <<>>

\* Body of load_models: reads the four files in order; any missing or
\* unreadable file raises, which is <<>> here.
load_models(dsk, tr) ==
    IF \A i \in 1..Len(Files) : Files[i] \in dsk
    THEN <<[model |-> tr.model, scaler |-> tr.scaler,
            metadata |-> tr.metadata, metrics |-> tr.metrics]>>
    ELSE <<>>

\* load_models without the decorator: the body runs on every call.
cached_load_models_uncached(c, dsk, tr) ==
    [value |-> load_models(dsk, tr),
     cache |-> IF load_models(dsk, tr) # <<>> THEN load_models(dsk, tr) ELSE c,
     read  |-> TRUE]

\* @st.cache_resource around load_models: a stored return value is handed
\* back without running the body; the body's return value is stored, an
\* exception is not.
cached_load_models(c, dsk, tr) ==
    IF c # <<>>
    THEN [value |-> c, cache |-> c, read |-> FALSE]
    ELSE [value |-> load_models(dsk, tr), cache |-> load_models(dsk, tr), read |-> TRUE]

\* The guard without st.stop(): the script goes on after the error.
guard_target_through(loaded) == "form"

\* if not models_loaded: st.error(...); st.stop()
guard_target(loaded) == IF ~loaded THEN "stopped" ELSE "form"

(***************************************************************************)
(* Form Renderer (app.py:121-148).                                         *)
(***************************************************************************)
is_binary(feature) == max_val(feature) = 1

\* value=float(min_val + (max_val - min_val) // 2); index=0 of options [0, 1]
default_value(feature) ==
    IF is_binary(feature)
    THEN 0
    ELSE min_val(feature) + (max_val(feature) - min_val(feature)) \div 2

\* A number_input without min_value/max_value.
accepts_any(feature, v) == TRUE

\* What the control lets the user commit: one of the two options of the
\* selectbox, or a number within min_value..max_value of the number_input.
accepts(feature, v) ==
    IF is_binary(feature)
    THEN v \in {0, 1}
    ELSE min_val(feature) <= v /\ v <= max_val(feature)

\* Value the control returns in a run: the session's value for its key, or
\* the default the first time the key is rendered.
widget_value(feature, w) ==
    IF feature \in DOMAIN w THEN w[feature] ELSE default_value(feature)

RECURSIVE form_inputs(_, _, _)
form_inputs(cols, w, acc) ==
    IF cols = <<>>
    THEN acc
    ELSE form_inputs(Tail(cols), w,
                     DictSet(acc, Head(cols), widget_value(Head(cols), w)))

\* Values a user may try to enter in the control of a feature.
Attempts(feature) ==
    {min_val(feature) - 1, min_val(feature), default_value(feature),
     max_val(feature), max_val(feature) + 1}

(***************************************************************************)
(* Risk Evaluator (app.py:149-199).                                        *)
(***************************************************************************)
\* list(inputs.values()): the mapping's storage order
features_list_values(inp, cols) == [i \in 1..Len(inp) |-> inp[i][2]]

\* [inputs[feat] for feat in feature_cols if feat in inputs]
features_list_skip(inp, cols) ==
    LET present == SelectSeq(cols, LAMBDA c : c \in Keys(inp))
    IN  [i \in 1..Len(present) |-> DictGet(inp, present[i], 0)]

\* [inputs.get(feat, 0) for feat in metadata['feature_cols']]
features_list(inp, cols) == [i \in 1..Len(cols) |-> DictGet(inp, cols[i], 0)]

\* scaler.transform: raises on a width other than the one it was fit on.
scaler_transform(scaler, x) ==
    IF Len(x) # Len(scaler.mean)
    THEN <<>>
    ELSE <<[i \in 1..Len(x) |-> x[i] - scaler.mean[i]]>>

RECURSIVE Dot(_, _)
Dot(w, z) == IF w = <<>> THEN 0 ELSE Head(w) * Head(z) + Dot(Tail(w), Tail(z))

\* model.predict(...)[0][0]: raises on a width other than its input layer's.
model_predict(model, z) ==
    IF Len(z) # Len(model.w) THEN <<>> ELSE <<model.b + Dot(model.w, z)>>

\* risk_score <= -0.5 at the first cut
risk_category_le(risk_score) ==
    IF risk_score <= LowCut THEN "Faible"
    ELSE IF risk_score < HighCut THEN "Moyen"
    ELSE "Eleve"

risk_category(risk_score) ==
    IF risk_score < LowCut THEN "Faible"
    ELSE IF risk_score < HighCut THEN "Moyen"
    ELSE "Eleve"

\* the Moyen and Eleve multipliers exchanged
premium_multiplier_swapped(category) ==
    IF category = "Faible" THEN 8
    ELSE IF category = "Moyen" THEN 15
    ELSE 10

\* 0.8, 1.0, 1.5 in tenths
premium_multiplier(category) ==
    IF category = "Faible" THEN 8
    ELSE IF category = "Moyen" THEN 10
    ELSE 15

\* base_premium * premium_multiplier, in cents
estimated_premium(category) == base_premium * premium_multiplier(category) * 10

\* f"{estimated_premium:.2f}": <<whole part, two decimals>>
format_2f(cents) == <<cents \div 100, cents % 100>>

\* app.py:151-155: <<>> when the scaler or the model raises
risk_score(inp, arts) ==
    LET x == features_list(inp, arts.metadata.feature_cols)
        z == scaler_transform(arts.scaler, x)
    IN  IF z = <<>> THEN <<>> ELSE model_predict(arts.model, z[1])

\* app.py:159-202
risk_result(score) ==
    [score   |-> score,
     tier    |-> risk_category(score),
     premium |-> estimated_premium(risk_category(score)),
     shown   |-> format_2f(estimated_premium(risk_category(score)))]

\* A failed evaluation still renders a result, for a score of 0.
evaluate_swallow(inp, arts) ==
    IF risk_score(inp, arts) = <<>>
    THEN <<risk_result(0)>>
    ELSE <<risk_result(risk_score(inp, arts)[1])>>

\* An evaluation leaves something behind that shifts the later scores.
evaluate_drift(inp, arts) ==
    IF risk_score(inp, arts) = <<>>
    THEN <<>>
    ELSE <<risk_result(risk_score(inp, arts)[1] + (IF prev = <<>> THEN 0 ELSE 1))>>

\* The button handler on one submission: no try/except around the calls, so
\* an exception of the scaler or the model ends the run before any result.
evaluate(inp, arts) ==
    IF risk_score(inp, arts) = <<>>
    THEN <<>>
    ELSE <<risk_result(risk_score(inp, arts)[1])>>

(***************************************************************************)
(* Artifact sets the runs are checked with.                                *)
(***************************************************************************)
Distinct(q) == \A i, j \in 1..Len(q) : i # j => q[i] # q[j]

ColLists == {q \in UNION {[1..n -> FeatureNames] : n \in 1..MaxCols} : Distinct(q)}

Vectors(S) == UNION {[1..n -> S] : n \in 1..MaxCols}

Trained(means, weights, biases) ==
    [model    : [w : Vectors(weights), b : biases],
     scaler   : [mean : Vectors(means)],
     metadata : [feature_cols : ColLists],
     metrics  : {[n_features |-> 0]}]

EmptyMap == [f \in {} |-> 0]

Ended == {"stopped", "done", "fault"}

(***************************************************************************)
(* The page: one script run per interaction.                               *)
(***************************************************************************)
Init ==
    /\ trained \in Trained({1}, {6}, {0})
    /\ disk \in SUBSET FileSet
    /\ cache = <<>>
    /\ pc = "load"
    /\ clicked = FALSE
    /\ models_loaded = FALSE
    /\ artifacts = <<>>
    /\ readDisk = FALSE
    /\ widgets = EmptyMap
    /\ inputs = <<>>
    /\ features_array = <<>>
    /\ result = <<>>
    /\ rendered = <<>>
    /\ loadFailed = FALSE
    /\ prev = <<>>

\* A file is uploaded to or removed from the application directory.
ChangeDisk ==
    /\ \E f \in FileSet : disk' = IF f \in disk THEN disk \ {f} ELSE disk \cup {f}
    /\ UNCHANGED <<trained, cache, pc, clicked, models_loaded, artifacts, readDisk,
                   widgets, inputs, features_array, result, rendered, loadFailed, prev>>

\* The script starts over: module globals and the page are rebuilt from
\* nothing; the cache and the session's widget state survive.
StartRun(click) ==
    /\ pc \in Ended
    /\ pc' = "load"
    /\ clicked' = click
    /\ models_loaded' = FALSE
    /\ artifacts' = <<>>
    /\ readDisk' = FALSE
    /\ inputs' = <<>>
    /\ features_array' = <<>>
    /\ result' = <<>>
    /\ rendered' = <<>>
    /\ prev' = IF prev = <<>> /\ result # <<>>
               THEN <<[inputs |-> inputs, result |-> result[1]]>>
               ELSE prev
    /\ UNCHANGED <<trained, disk, cache, loadFailed>>

\* The user asks for a re-run from the page menu.
Rerun ==
    /\ StartRun(FALSE)
    /\ UNCHANGED widgets

\* The user edits one control of the rendered form.
SetWidget ==
    /\ \E feature \in DOMAIN widgets : \E v \in Attempts(feature) :
          /\ "form" \in {rendered[i] : i \in 1..Len(rendered)}
          /\ widgets' = [widgets EXCEPT ![feature] =
                            IF accepts(feature, v) THEN v ELSE @]
    /\ StartRun(FALSE)

\* The user presses the Analyze button of the rendered page.
Click ==
    /\ "button" \in {rendered[i] : i \in 1..Len(rendered)}
    /\ StartRun(TRUE)
    /\ UNCHANGED widgets

\* app.py:26-30 and the page header, 32-68
LoadModels ==
    /\ pc = "load"
    /\ LET r == cached_load_models(cache, disk, trained)
       IN  /\ cache' = r.cache
           /\ readDisk' = r.read
           /\ artifacts' = r.value
           /\ models_loaded' = (r.value # <<>>)
           /\ loadFailed' = (loadFailed \/ r.value = <<>>)
    /\ rendered' = Append(rendered, "title")
    /\ pc' = "guard"
    /\ UNCHANGED <<trained, disk, clicked, widgets, inputs, features_array,
                   result, prev>>

\* app.py:70-72
Guard ==
    /\ pc = "guard"
    /\ pc' = guard_target(models_loaded)
    /\ rendered' = IF pc' = "stopped" THEN Append(rendered, "load_error") ELSE rendered
    /\ UNCHANGED <<trained, disk, cache, clicked, models_loaded, artifacts, readDisk,
                   widgets, inputs, features_array, result, loadFailed, prev>>

\* app.py:74-148: the sidebar reads metrics, the loop reads metadata; with
\* the names unbound the run dies on a NameError.
RenderForm ==
    /\ pc = "form"
    /\ IF artifacts = <<>>
       THEN /\ pc' = "fault"
            /\ rendered' = Append(rendered, "exception")
            /\ UNCHANGED <<inputs, widgets>>
       ELSE /\ pc' = "button"
            /\ inputs' = form_inputs(artifacts[1].metadata.feature_cols, widgets, <<>>)
            /\ widgets' = [f \in Keys(inputs') |-> DictGet(inputs', f, 0)]
            /\ rendered' = rendered \o <<"sidebar", "form", "button">>
    /\ UNCHANGED <<trained, disk, cache, clicked, models_loaded, artifacts, readDisk,
                   features_array, result, loadFailed, prev>>

\* app.py:149-263 with the button pressed
Analyze ==
    /\ pc = "button"
    /\ clicked
    /\ features_array' = features_list(inputs, artifacts[1].metadata.feature_cols)
    /\ result' = evaluate(inputs, artifacts[1])
    /\ IF result' = <<>>
       THEN /\ pc' = "fault"
            /\ rendered' = Append(rendered, "exception")
       ELSE /\ pc' = "done"
            /\ rendered' = rendered \o <<"result", "footer">>
    /\ UNCHANGED <<trained, disk, cache, clicked, models_loaded, artifacts, readDisk,
                   widgets, inputs, loadFailed, prev>>

\* app.py:149 with the button not pressed, then 265-314
Footer ==
    /\ pc = "button"
    /\ ~clicked
    /\ pc' = "done"
    /\ rendered' = Append(rendered, "footer")
    /\ UNCHANGED <<trained, disk, cache, clicked, models_loaded, artifacts, readDisk,
                   widgets, inputs, features_array, result, loadFailed, prev>>

Next ==
    \/ ChangeDisk
    \/ Rerun
    \/ SetWidget
    \/ Click
    \/ LoadModels
    \/ Guard
    \/ RenderForm
    \/ Analyze
    \/ Footer

Spec == Init /\ [][Next]_vars

(***************************************************************************)
(* The Risk Evaluator alone, on any input mapping: the form is rendered,   *)
(* the button is pressed, and inputs holds any subset of the features in   *)
(* any storage order.                                                      *)
(***************************************************************************)
AcceptedPairs ==
    UNION {{<<f, v>> : v \in {a \in Attempts(f) : accepts(f, a)}} : f \in FeatureNames}

InputVectors ==
    {q \in UNION {[1..n -> AcceptedPairs] : n \in 0..Cardinality(FeatureNames)} :
        \A i, j \in 1..Len(q) : i # j => q[i][1] # q[j][1]}

EvalInit ==
    /\ trained \in Trained({1}, {1}, -MaxBias..MaxBias)
    /\ disk = FileSet
    /\ cache = load_models(disk, trained)
    /\ pc = "button"
    /\ clicked = TRUE
    /\ models_loaded = TRUE
    /\ artifacts = cache
    /\ readDisk = TRUE
    /\ widgets = EmptyMap
    /\ inputs \in InputVectors
    /\ features_array = <<>>
    /\ result = <<>>
    /\ rendered = <<"title", "sidebar", "form", "button">>
    /\ loadFailed = FALSE
    /\ prev = <<>>

EvalNext == Analyze

EvalSpec == EvalInit /\ [][EvalNext]_vars

(***************************************************************************)
(* Properties.                                                             *)
(***************************************************************************)
Shown == {rendered[i] : i \in 1..Len(rendered)}

feature_cols == artifacts[1].metadata.feature_cols

Evaluated == pc \in {"done", "fault"} /\ clicked /\ artifacts # <<>>

\* C1: every score gets exactly one tier: Faible below -0.5, Moyen from -0.5
\* up to but not including 0.5, Eleve from 0.5 on; -0.5 is Moyen and 0.5 is
\* Eleve.
C1_Tiers ==
    result # <<>> =>
        LET s == result[1].score
            t == result[1].tier
        IN  /\ t \in {"Faible", "Moyen", "Eleve"}
            /\ (t = "Faible") = (s < -5)
            /\ (t = "Moyen") = (-5 <= s /\ s < 5)
            /\ (t = "Eleve") = (s >= 5)
            /\ (s = -5 => t = "Moyen" /\ t # "Faible")
            /\ (s = 5 => t = "Eleve" /\ t # "Moyen")

C1_Witness == result # <<>> /\ result[1].score = -5 /\ result[1].tier = "Moyen"

\* C2: the premium is 1000 times the multiplier of the tier assigned to the
\* same score, shown as 800.00, 1000.00 or 1500.00 and nothing else.
C2_Premium ==
    result # <<>> =>
        LET r == result[1]
        IN  /\ r.shown \in {<<800, 0>>, <<1000, 0>>, <<1500, 0>>}
            /\ (r.tier = "Faible" => r.premium = 80000 /\ r.shown = <<800, 0>>)
            /\ (r.tier = "Moyen" => r.premium = 100000 /\ r.shown = <<1000, 0>>)
            /\ (r.tier = "Eleve" => r.premium = 150000 /\ r.shown = <<1500, 0>>)
            /\ (r.score < -5 => r.shown = <<800, 0>>)
            /\ (-5 <= r.score /\ r.score < 5 => r.shown = <<1000, 0>>)
            /\ (r.score >= 5 => r.shown = <<1500, 0>>)

C2_Witness == result # <<>> /\ result[1].tier = "Eleve" /\ result[1].shown = <<1500, 0>>

Orderings(n) == {p \in [1..n -> 1..n] : \A i, j \in 1..n : i # j => p[i] # p[j]}

Permuted(q, p) == [i \in 1..Len(q) |-> q[p[i]]]

\* C3: the vector handed to the scaler has one entry per declared feature, in
\* the declared order, position i holding the value captured for feature i,
\* and no permutation of the mapping's storage order changes it.
C3_DeclaredOrder ==
    Evaluated =>
        /\ Len(features_array) = Len(feature_cols)
        /\ \A i \in 1..Len(feature_cols) : \A k \in 1..Len(inputs) :
              inputs[k][1] = feature_cols[i] => features_array[i] = inputs[k][2]
        /\ \A p \in Orderings(Len(inputs)) :
              features_list(Permuted(inputs, p), feature_cols) = features_array

C3_Witness ==
    /\ Evaluated
    /\ Len(feature_cols) = 2
    /\ Len(inputs) >= 2
    /\ inputs[1][1] = feature_cols[2]
    /\ inputs[2][1] = feature_cols[1]
    /\ inputs[1][2] # inputs[2][2]

Missing == {i \in 1..Len(feature_cols) : feature_cols[i] \notin Keys(inputs)}

WidthsAgree ==
    /\ Len(feature_cols) = Len(artifacts[1].scaler.mean)
    /\ Len(artifacts[1].scaler.mean) = Len(artifacts[1].model.w)

\* C4: a declared feature with no entry in the mapping gets 0 at its position
\* and the evaluation still ends with a result.
C4_MissingIsZero ==
    Evaluated =>
        /\ Len(features_array) = Len(feature_cols)
        /\ \A i \in Missing : features_array[i] = 0
        /\ (Missing # {} /\ WidthsAgree => pc = "done" /\ result # <<>>)

C4_Witness ==
    /\ Evaluated
    /\ Missing # {}
    /\ Keys(inputs) # {}
    /\ pc = "done"
    /\ result # <<>>

\* C5: when any of the four artifacts fails to load nothing is usable: the
\* run shows the one load error and stops, with no sidebar, form, button or
\* evaluation.
C5_Unusable ==
    pc # "load" /\ ~models_loaded =>
        /\ artifacts = <<>>
        /\ cache = <<>>
        /\ pc \in {"guard", "stopped"}
        /\ Shown \cap {"sidebar", "form", "button", "result", "exception"} = {}
        /\ inputs = <<>>
        /\ features_array = <<>>
        /\ result = <<>>
        /\ (pc = "stopped" => rendered = <<"title", "load_error">>)

C5_AnyOneFails ==
    (pc = "load" /\ pc' = "guard" /\ cache = <<>> /\ disk # FileSet) =>
        ~models_loaded' /\ artifacts' = <<>> /\ cache' = <<>>

C5_NoPartialSuccess == []C5_Unusable /\ [][C5_AnyOneFails]_vars

C5_Witness ==
    /\ pc = "stopped"
    /\ ~models_loaded
    /\ disk = FileSet \ {"metrics.pkl"}
    /\ rendered = <<"title", "load_error">>

C6_FailedRun ==
    (pc \in {"guard", "stopped"} /\ ~models_loaded) =>
        \/ pc' = "load" /\ ~readDisk' /\ rendered' = <<>>
        \/ /\ pc' \in {"guard", "stopped"}
           /\ readDisk' = readDisk
           /\ cache' = cache
           /\ ~models_loaded'
           /\ "form" \notin Shown'

C6_NextRunLoadsAgain ==
    (loadFailed /\ cache = <<>> /\ pc = "load" /\ pc' = "guard") =>
        readDisk' /\ (models_loaded' = (disk = FileSet))

C7_Step ==
    cache # <<>> =>
        /\ cache' = cache
        /\ (readDisk' => readDisk)
        /\ (pc = "load" /\ pc' = "guard" => models_loaded' /\ artifacts' = cache)

C7_CachedForProcess == [][C7_Step]_vars

C7_Witness ==
    /\ cache # <<>>
    /\ ~readDisk
    /\ disk = {}
    /\ pc = "done"
    /\ result # <<>>

C9_InRange ==
    \A k \in 1..Len(inputs) :
        LET f  == inputs[k][1]
            v  == inputs[k][2]
            lo == feature_ranges(f)[1]
            hi == feature_ranges(f)[2]
        IN  /\ lo <= v /\ v <= hi
            /\ (hi = 1 => v \in {0, 1})
            /\ (f \in DOMAIN widgets => widgets[f] = v)

C9_Start ==
    (pc = "form" /\ pc' = "button") =>
        \A k \in 1..Len(inputs') :
            LET f  == inputs'[k][1]
                lo == feature_ranges(f)[1]
                hi == feature_ranges(f)[2]
            IN  f \notin DOMAIN widgets =>
                    inputs'[k][2] = IF hi = 1 THEN 0 ELSE lo + (hi - lo) \div 2

C9_Captured == []C9_InRange /\ [][C9_Start]_vars

C9_Witness ==
    /\ pc = "button"
    /\ Len(inputs) = 2
    /\ inputs[1] = <<"educ", 100>>
    /\ inputs[2] = <<"age", 18>>

\* C10: when the scaler or the model rejects the vector the submission ends
\* with no score, tier or premium on the page; the step changes nothing else
\* of the session, and no result was rendered before it in this process.
C10_NoResult ==
    (Evaluated /\ ~WidthsAgree) =>
        /\ pc = "fault"
        /\ result = <<>>
        /\ "result" \notin Shown
        /\ rendered = <<"title", "sidebar", "form", "button", "exception">>
        /\ prev = <<>>

C10_FaultStep ==
    (pc = "button" /\ pc' = "fault") =>
        UNCHANGED <<cache, widgets, inputs, prev, artifacts>>

C10_Abandoned == []C10_NoResult /\ [][C10_FaultStep]_vars

C10_Witness ==
    /\ pc = "fault"
    /\ features_array # <<>>
    /\ Len(features_array) = Len(artifacts[1].scaler.mean)
    /\ Len(artifacts[1].model.w) # Len(features_array)
    /\ result = <<>>

====
